---- MODULE Spec2Model ----
(***************************************************************************)
(* Streaming-session coordinator of the fast ASR sidecar                   *)
(* (src/sidecars/fast_asr/server.py).                                      *)
(*                                                                         *)
(* Request handlers are plain `def` endpoints, so the web framework runs   *)
(* every request on its own worker thread.  Each thread is modelled by a   *)
(* program counter that names the source line it is executing; a thread    *)
(* whose pc names an engine call is inside that call until the action of   *)
(* that pc fires (the call returns or raises).  Single dict operations     *)
(* (sessions.get, sessions.pop, sessions[k] = v) are atomic under the      *)
(* interpreter lock and are one step each.                                 *)
(***************************************************************************)
EXTENDS Integers, Sequences, FiniteSets, TLC

(***************************************************************************)
(* Bounds of the model.                                                    *)
(***************************************************************************)
NumThreads == 2      \* worker threads serving requests concurrently
MaxSessions == 2     \* sessions started in one behaviour
MaxCalls == 3        \* requests received in one behaviour
MaxTime == 1         \* longest time a push is followed for (in ticks)
TicksPerMs == 1      \* clock resolution: ticks per millisecond
MaxUploads == 2      \* transcribe requests received in one behaviour

(***************************************************************************)
(* The Recognition Engine works on frames: a Stream is ready when it has   *)
(* buffered one full frame (or, after end-of-input, anything at all).      *)
(***************************************************************************)
FrameLen == 2

Threads == 1..NumThreads
NoThread == 0
NoStream == 0
NoSession == 0
RequestIds == 1..(MaxSessions + 1)   \* the ids issued and one never issued

(***************************************************************************)
(* Wire payloads (PushReq.samples_b64): sequences of characters.  "A" is a *)
(* character of the base64 alphabet, "=" the pad, "!" an ASCII character   *)
(* outside the alphabet, "NONASCII" a character above U+007F.              *)
(***************************************************************************)
Rep(c, n) == [i \in 1..n |-> c]

Payloads ==
    { <<>>,                                  \* ""            empty string
      Rep("!", 4),                           \* "!!!!"        decodes to b""
      <<"A">>,                               \* "A"           1 data character
      <<"NONASCII">>,                        \* "é"
      <<"A", "A", "=", "=">>,                \* "AA=="        1 byte
      Rep("A", 6) \o Rep("=", 2),            \* 4 bytes = 1 float32
      Rep("A", 22) \o Rep("=", 2) }          \* 16 bytes = 4 float32

(***************************************************************************)
(* base64.b64decode(s) with validate=False (line 94).  A str argument is   *)
(* first encoded as ASCII, which raises ValueError on any other character; *)
(* binascii.a2b_base64 then scans the characters: characters outside the   *)
(* alphabet are skipped, every data character after the first of a quad    *)
(* yields one byte, a pad sequence that completes a quad ends the scan,    *)
(* and an incomplete quad at the end of input raises binascii.Error.       *)
(* Only the number of decoded bytes is kept: the byte values do not decide *)
(* any branch of the handler.                                              *)
(***************************************************************************)
IsAscii(s) == \A i \in 1..Len(s) : s[i] # "NONASCII"

RECURSIVE a2b_base64(_, _, _, _, _)
a2b_base64(s, i, quad_pos, pads, nbytes) ==
    IF i > Len(s)
    THEN [ok |-> quad_pos = 0, nbytes |-> nbytes]
    ELSE IF s[i] = "="
         THEN IF quad_pos >= 2 /\ quad_pos + pads + 1 >= 4
              THEN [ok |-> TRUE, nbytes |-> nbytes]
              ELSE a2b_base64(s, i + 1, quad_pos,
                              IF quad_pos >= 2 THEN pads + 1 ELSE pads, nbytes)
         ELSE IF s[i] = "A"
              THEN a2b_base64(s, i + 1, (quad_pos + 1) % 4, 0,
                              IF quad_pos = 0 THEN nbytes ELSE nbytes + 1)
              ELSE a2b_base64(s, i + 1, quad_pos, pads, nbytes)

b64decode(s) ==
    IF ~IsAscii(s)
    THEN [ok |-> FALSE, nbytes |-> 0]
    ELSE a2b_base64(s, 1, 0, 0, 0)

(***************************************************************************)
(* np.frombuffer(data, dtype=np.float32) (line 101): raises ValueError     *)
(* when the buffer size is not a multiple of the element size, otherwise   *)
(* yields nbytes / 4 samples.                                              *)
(***************************************************************************)
ItemSize == 4

frombuffer(nbytes) ==
    [ok |-> nbytes % ItemSize = 0, size |-> nbytes \div ItemSize]

(***************************************************************************)
(* Lines 90-103 of push_audio: what the handler does with the payload once *)
(* the session has been found.                                             *)
(*   "empty"       return PushResp(text="", latency_ms=0)  (91, 99, 103)   *)
(*   "bad_base64"  HTTPException(400)                      (96)            *)
(*   "value_error" np.frombuffer raises outside the try    (101)           *)
(*   "samples"     go on to the critical section with `size` samples       *)
(***************************************************************************)
\* without the emptiness checks of lines 98 and 102
ParsePayload_unguarded(samples_b64) ==
    IF samples_b64 = <<>>
    THEN [kind |-> "empty", size |-> 0]
    ELSE LET data == b64decode(samples_b64) IN
         IF ~data.ok
         THEN [kind |-> "bad_base64", size |-> 0]
         ELSE LET samples == frombuffer(data.nbytes) IN
              IF ~samples.ok
              THEN [kind |-> "value_error", size |-> 0]
              ELSE [kind |-> "samples", size |-> samples.size]

\* with decoding errors swallowed and the buffer cut to whole samples
ParsePayload_lenient(samples_b64) ==
    IF samples_b64 = <<>>
    THEN [kind |-> "empty", size |-> 0]
    ELSE LET data == b64decode(samples_b64)
             samples == frombuffer(data.nbytes)
         IN  [kind |-> "samples", size |-> samples.size]

ParsePayload(samples_b64) ==
    IF samples_b64 = <<>>
    THEN [kind |-> "empty", size |-> 0]
    ELSE LET data == b64decode(samples_b64) IN
         IF ~data.ok
         THEN [kind |-> "bad_base64", size |-> 0]
         ELSE IF data.nbytes = 0
              THEN [kind |-> "empty", size |-> 0]
              ELSE LET samples == frombuffer(data.nbytes) IN
                   IF ~samples.ok
                   THEN [kind |-> "value_error", size |-> 0]
                   ELSE IF samples.size = 0
                        THEN [kind |-> "empty", size |-> 0]
                        ELSE [kind |-> "samples", size |-> samples.size]

(***************************************************************************)
(* _extract_text (lines 70-73).  A result is a bare str, an object with a  *)
(* text attribute (possibly None or ""), or an object without one.  Texts  *)
(* are sequences of tokens; <<>> is the empty string.                      *)
(***************************************************************************)
EmptyText == <<>>
NoneText == <<"None">>

_extract_text(result) ==
    IF result.shape = "str"
    THEN result.text
    ELSE IF result.shape = "obj" /\ result.text # NoneText
         THEN result.text
         ELSE EmptyText

(***************************************************************************)
(* latency_ms = int((time.time() - started) * 1000) (line 111).  Time is   *)
(* counted in ticks of 1/TicksPerMs ms; the argument is time.time() -      *)
(* started in ticks, negative when the wall clock was set back in between; *)
(* int() truncates towards 0.                                              *)
(***************************************************************************)
LatencyMs(elapsed) ==
    IF elapsed >= 0
    THEN elapsed \div TicksPerMs
    ELSE 0 - ((0 - elapsed) \div TicksPerMs)

(***************************************************************************)
(* The registry `sessions` (line 39): a dict from session id to Stream.    *)
(***************************************************************************)
sessions_get(reg, id) == IF id \in DOMAIN reg THEN reg[id] ELSE NoStream

sessions_pop_keeps(reg, id) == reg     \* a lookup where a removal was meant

sessions_pop(reg, id) == [i \in DOMAIN reg \ {id} |-> reg[i]]

sessions_set(reg, id, stream) ==
    [i \in DOMAIN reg \cup {id} |-> IF i = id THEN stream ELSE reg[i]]

(***************************************************************************)
(* uuid.uuid4().hex (line 78): a 122-bit random token, taken to differ     *)
(* from every token drawn before; tokens are numbered in order of issue.   *)
(***************************************************************************)
uuid4_reused(count) == 1          \* a generator that repeats its first token

uuid4(count) == count + 1

(***************************************************************************)
(* The Recognition Engine (sherpa_onnx.OnlineRecognizer and its streams),  *)
(* an external collaborator known by its contract only.  A Stream holds    *)
(* the samples buffered but not yet decoded, the number of decode steps    *)
(* done (one token of hypothesis each), the end-of-input flag and the      *)
(* number of times end-of-input was signalled.                             *)
(***************************************************************************)
create_stream == [pending |-> 0, decoded |-> 0, finished |-> FALSE, finishes |-> 0]

accept_waveform(st, n) == [st EXCEPT !.pending = @ + n]

input_finished(st) == [st EXCEPT !.finished = TRUE, !.finishes = @ + 1]

is_ready(st) == IF st.finished THEN st.pending > 0 ELSE st.pending >= FrameLen

decode_stream(st) ==
    [st EXCEPT !.pending = IF @ > FrameLen THEN @ - FrameLen ELSE 0,
               !.decoded = @ + 1]

get_result(st, shape) == [shape |-> shape, text |-> Rep("w", st.decoded)]

ResultShapes == {"str", "obj"}


(***************************************************************************)
(* State.                                                                  *)
(***************************************************************************)
VARIABLES
    sessions,       \* the registry: session id -> stream handle     (line 39)
    lock,           \* threading.Lock(): its holder, or NoThread     (line 38)
    streams,        \* the engine's Streams, by handle, in creation order
    issued,         \* number of uuid4 tokens drawn
    ncalls,         \* requests received so far
    removed,        \* history: the ids end_session has removed -> their stream
    pc,             \* per thread: the line it is executing
    req,            \* per thread: the request body
    stream,         \* per thread: local `stream`
    samples,        \* per thread: local `samples` (its size)
    result,         \* per thread: local `result`
    since_started,  \* per thread: time.time() - started, in ticks (wall clock)
    since_attempt,  \* per thread: time passed since it reached `with lock` (106)
    span,           \* per thread: since_attempt when it released the lock
    touched,        \* per thread: the call took the lock or called the engine
    resp,           \* per thread: the response of the finished call
    warm_pc,        \* asr_mlx: the line the warm-up thread is executing
    warm_starts,    \* asr_mlx: warm-up threads started so far
    warm_raised,    \* asr_mlx: an exception was raised inside _warm_up_model
    warm_escaped,   \* asr_mlx: an exception left _warm_up_model
    files,          \* asr_mlx: the temporary files on disk
    asr_pc,         \* asr_mlx, per request: the line its handler is executing
    asr_resp        \* asr_mlx, per request: the response of its handler

shared == <<sessions, lock, streams>>
counters == <<issued, ncalls, removed>>
locals == <<req, stream, samples, result>>
timers == <<since_started, since_attempt, span>>
fast_asr == <<shared, counters, pc, locals, timers, touched, resp>>
asr_mlx == <<warm_pc, warm_starts, warm_raised, warm_escaped, files, asr_pc, asr_resp>>

vars == <<sessions, lock, streams, issued, ncalls, removed, pc, req, stream, samples,
          result, since_started, since_attempt, span, touched, resp,
          warm_pc, warm_starts, warm_raised, warm_escaped, files, asr_pc, asr_resp>>

NoReq == [op |-> "none", session_id |-> NoSession, samples_b64 |-> <<>>]
NoResult == [shape |-> "str", text |-> EmptyText]
NoResp == [status |-> 0, text |-> EmptyText, latency_ms |-> 0, session_id |-> NoSession]

StartResp(id) == [status |-> 200, text |-> EmptyText, latency_ms |-> 0, session_id |-> id]
PushResp(text, latency) == [status |-> 200, text |-> text, latency_ms |-> latency, session_id |-> NoSession]
EndResp(text) == [status |-> 200, text |-> text, latency_ms |-> 0, session_id |-> NoSession]
HTTPException(code) == [status |-> code, text |-> EmptyText, latency_ms |-> 0, session_id |-> NoSession]
InternalServerError == HTTPException(500)

Uploads == 1..MaxUploads          \* the transcribe requests, in no order

NoAsrResp == [status |-> 0, text |-> EmptyText]
TranscribeResp(text) == [status |-> 200, text |-> text]
AsrServerError == [status |-> 500, text |-> EmptyText]

Init ==
    /\ sessions = <<>>
    /\ lock = NoThread
    /\ streams = <<>>
    /\ issued = 0
    /\ ncalls = 0
    /\ removed = <<>>
    /\ pc = [t \in Threads |-> "idle"]
    /\ req = [t \in Threads |-> NoReq]
    /\ stream = [t \in Threads |-> NoStream]
    /\ samples = [t \in Threads |-> 0]
    /\ result = [t \in Threads |-> NoResult]
    /\ since_started = [t \in Threads |-> 0]
    /\ since_attempt = [t \in Threads |-> 0]
    /\ span = [t \in Threads |-> 0]
    /\ touched = [t \in Threads |-> FALSE]
    /\ resp = [t \in Threads |-> NoResp]
    /\ warm_pc = "unstarted"
    /\ warm_starts = 0
    /\ warm_raised = FALSE
    /\ warm_escaped = FALSE
    /\ files = {}
    /\ asr_pc = [r \in Uploads |-> "unreceived"]
    /\ asr_resp = [r \in Uploads |-> NoAsrResp]

(***************************************************************************)
(* Lock primitives: `with lock:` acquires on entry, blocking while the     *)
(* lock is held, and releases on every exit of the block.                  *)
(***************************************************************************)
lock_free_unchecked(l) == TRUE    \* an acquire that does not block

lock_free(l) == l = NoThread

lock_release_leaks(l, t) == l     \* an exit that forgets the release

lock_release(l, t) == IF l = t THEN NoThread ELSE l

(***************************************************************************)
(* A handler ends: its locals are gone, the response (or the exception     *)
(* turned into one by the framework) is recorded and the thread waits at   *)
(* "done" to hand it over.                                                 *)
(***************************************************************************)
Finish(t, r) ==
    /\ pc' = [pc EXCEPT ![t] = "done"]
    /\ resp' = [resp EXCEPT ![t] = r]
    /\ stream' = [stream EXCEPT ![t] = NoStream]
    /\ samples' = [samples EXCEPT ![t] = 0]
    /\ result' = [result EXCEPT ![t] = NoResult]
    /\ since_started' = [since_started EXCEPT ![t] = 0]
    /\ since_attempt' = [since_attempt EXCEPT ![t] = 0]
    /\ span' = [span EXCEPT ![t] = 0]
    /\ UNCHANGED asr_mlx

Goto(t, label) ==
    /\ pc' = [pc EXCEPT ![t] = label]
    /\ UNCHANGED <<resp, asr_mlx>>

(***************************************************************************)
(* start_session (lines 76-81).                                            *)
(***************************************************************************)
start_session_uuid(t) ==                                    \* line 78
    /\ pc[t] = "idle"
    /\ issued < MaxSessions
    /\ ncalls < MaxCalls
    /\ ncalls' = ncalls + 1
    /\ issued' = uuid4(issued)
    /\ req' = [req EXCEPT ![t] = [NoReq EXCEPT !.op = "start", !.session_id = uuid4(issued)]]
    /\ Goto(t, "start_create")
    /\ UNCHANGED <<shared, removed, stream, samples, result, timers, touched>>

\* a recognizer that hands every session the Stream it created first
start_session_create_shared(t) ==
    /\ pc[t] = "start_create"
    /\ streams' = IF streams = <<>> THEN Append(streams, create_stream) ELSE streams
    /\ stream' = [stream EXCEPT ![t] = 1]
    /\ touched' = [touched EXCEPT ![t] = TRUE]
    /\ Goto(t, "start_store")
    /\ UNCHANGED <<sessions, lock, counters, req, samples, result, timers>>

start_session_create(t) ==                                  \* line 79
    /\ pc[t] = "start_create"
    /\ streams' = Append(streams, create_stream)
    /\ stream' = [stream EXCEPT ![t] = Len(streams) + 1]
    /\ touched' = [touched EXCEPT ![t] = TRUE]
    /\ Goto(t, "start_store")
    /\ UNCHANGED <<sessions, lock, counters, req, samples, result, timers>>

\* the registry written under the decode lock
start_session_store_locked(t) ==
    /\ pc[t] = "start_store"
    /\ lock_free(lock)
    /\ sessions' = sessions_set(sessions, req[t].session_id, stream[t])
    /\ Finish(t, StartResp(req[t].session_id))
    /\ UNCHANGED <<lock, streams, counters, req, touched>>

start_session_store(t) ==                                   \* lines 80-81
    /\ pc[t] = "start_store"
    /\ sessions' = sessions_set(sessions, req[t].session_id, stream[t])
    /\ Finish(t, StartResp(req[t].session_id))
    /\ UNCHANGED <<lock, streams, counters, req, touched>>

start_session_raise(t) ==                    \* create_stream raises (line 79)
    /\ pc[t] = "start_create"
    /\ touched' = [touched EXCEPT ![t] = TRUE]
    /\ Finish(t, InternalServerError)
    /\ UNCHANGED <<shared, counters, req>>

(***************************************************************************)
(* push_audio (lines 84-112).                                              *)
(***************************************************************************)
push_audio_lookup(t, id, samples_b64) ==                    \* lines 86-103
    /\ pc[t] = "idle"
    /\ ncalls < MaxCalls
    /\ ncalls' = ncalls + 1
    /\ req' = [req EXCEPT ![t] = [op |-> "push", session_id |-> id,
                                  samples_b64 |-> samples_b64]]
    /\ LET found == sessions_get(sessions, id)
           parsed == ParsePayload(samples_b64)
       IN  IF found = NoStream
           THEN Finish(t, HTTPException(404))
           ELSE IF parsed.kind = "empty"
           THEN Finish(t, PushResp(EmptyText, 0))
           ELSE IF parsed.kind = "bad_base64"
           THEN Finish(t, HTTPException(400))
           ELSE IF parsed.kind = "value_error"
           THEN Finish(t, InternalServerError)
           ELSE /\ stream' = [stream EXCEPT ![t] = found]
                /\ samples' = [samples EXCEPT ![t] = parsed.size]
                /\ Goto(t, "push_started")
                /\ UNCHANGED <<result, timers>>
    /\ UNCHANGED <<shared, issued, removed, touched>>

push_audio_started(t) ==                                    \* line 105
    /\ pc[t] = "push_started"
    /\ since_started' = [since_started EXCEPT ![t] = 0]
    /\ since_attempt' = [since_attempt EXCEPT ![t] = 0]
    /\ Goto(t, "push_lock")
    /\ UNCHANGED <<shared, counters, locals, span, touched>>

push_audio_acquire(t) ==                                    \* line 106
    /\ pc[t] = "push_lock"
    /\ lock_free(lock)
    /\ lock' = t
    /\ touched' = [touched EXCEPT ![t] = TRUE]
    /\ Goto(t, "push_accept")
    /\ UNCHANGED <<sessions, streams, counters, locals, timers>>

\* the `with lock` block closed after line 107: the loop runs unlocked
push_audio_accept_unlocks(t) ==
    /\ pc[t] = "push_accept"
    /\ streams' = [streams EXCEPT ![stream[t]] = accept_waveform(@, samples[t])]
    /\ lock' = lock_release(lock, t)
    /\ Goto(t, "push_drain")
    /\ UNCHANGED <<sessions, counters, locals, timers, touched>>

push_audio_accept(t) ==                                     \* line 107
    /\ pc[t] = "push_accept"
    /\ streams' = [streams EXCEPT ![stream[t]] = accept_waveform(@, samples[t])]
    /\ Goto(t, "push_drain")
    /\ UNCHANGED <<sessions, lock, counters, locals, timers, touched>>

\* `if` where `while` was meant: at most one decode step per push
push_audio_drain_once(t) ==
    /\ pc[t] = "push_drain"
    /\ IF is_ready(streams[stream[t]])
       THEN streams' = [streams EXCEPT ![stream[t]] = decode_stream(@)]
       ELSE UNCHANGED streams
    /\ Goto(t, "push_result")
    /\ UNCHANGED <<sessions, lock, counters, locals, timers, touched>>

push_audio_drain(t) ==                 \* lines 108-109, one turn of the loop
    /\ pc[t] = "push_drain"
    /\ IF is_ready(streams[stream[t]])
       THEN /\ streams' = [streams EXCEPT ![stream[t]] = decode_stream(@)]
            /\ Goto(t, "push_drain")
       ELSE /\ UNCHANGED streams
            /\ Goto(t, "push_result")
    /\ UNCHANGED <<sessions, lock, counters, locals, timers, touched>>

push_audio_result(t, shape) ==               \* line 110 and the end of `with`
    /\ pc[t] = "push_result"
    /\ result' = [result EXCEPT ![t] = get_result(streams[stream[t]], shape)]
    /\ lock' = lock_release(lock, t)
    /\ span' = [span EXCEPT ![t] = since_attempt[t]]
    /\ Goto(t, "push_latency")
    /\ UNCHANGED <<sessions, streams, counters, req, stream, samples,
                   since_started, since_attempt, touched>>

push_audio_latency(t) ==                                    \* lines 111-112
    /\ pc[t] = "push_latency"
    /\ Finish(t, PushResp(_extract_text(result[t]), LatencyMs(since_started[t])))
    /\ UNCHANGED <<shared, counters, req, touched>>

\* a handler that evicts the session when the engine fails
push_audio_raise_evicts(t) ==
    /\ pc[t] \in {"push_accept", "push_drain", "push_result"}
    /\ lock' = lock_release(lock, t)
    /\ sessions' = sessions_pop(sessions, req[t].session_id)
    /\ Finish(t, InternalServerError)
    /\ UNCHANGED <<streams, counters, req, touched>>

push_audio_raise(t) ==            \* an engine call of lines 107-110 raises
    /\ pc[t] \in {"push_accept", "push_drain", "push_result"}
    /\ lock' = lock_release(lock, t)
    /\ Finish(t, InternalServerError)
    /\ UNCHANGED <<sessions, streams, counters, req, touched>>

(***************************************************************************)
(* end_session (lines 115-126).                                            *)
(***************************************************************************)
\* the lock taken by hand before the lookup and not released on NotFound
end_session_pop_locking(t, id) ==
    /\ pc[t] = "idle"
    /\ ncalls < MaxCalls
    /\ ncalls' = ncalls + 1
    /\ req' = [req EXCEPT ![t] = [NoReq EXCEPT !.op = "end", !.session_id = id]]
    /\ sessions' = sessions_pop(sessions, id)
    /\ LET found == sessions_get(sessions, id)
       IN  IF found = NoStream
           THEN /\ lock_free(lock)
                /\ lock' = t
                /\ Finish(t, HTTPException(404))
                /\ UNCHANGED removed
           ELSE /\ stream' = [stream EXCEPT ![t] = found]
                /\ removed' = sessions_set(removed, id, found)
                /\ Goto(t, "end_lock")
                /\ UNCHANGED <<lock, samples, result, timers>>
    /\ UNCHANGED <<streams, issued, touched>>

end_session_pop(t, id) ==                                   \* lines 117-119
    /\ pc[t] = "idle"
    /\ ncalls < MaxCalls
    /\ ncalls' = ncalls + 1
    /\ req' = [req EXCEPT ![t] = [NoReq EXCEPT !.op = "end", !.session_id = id]]
    /\ sessions' = sessions_pop(sessions, id)
    /\ LET found == sessions_get(sessions, id)
       IN  IF found = NoStream
           THEN /\ Finish(t, HTTPException(404))
                /\ UNCHANGED removed
           ELSE /\ stream' = [stream EXCEPT ![t] = found]
                /\ removed' = sessions_set(removed, id, found)
                /\ Goto(t, "end_lock")
                /\ UNCHANGED <<samples, result, timers>>
    /\ UNCHANGED <<lock, streams, issued, touched>>

end_session_acquire(t) ==                                   \* line 121
    /\ pc[t] = "end_lock"
    /\ lock_free(lock)
    /\ lock' = t
    /\ touched' = [touched EXCEPT ![t] = TRUE]
    /\ Goto(t, "end_finish")
    /\ UNCHANGED <<sessions, streams, counters, locals, timers>>

end_session_finish(t) ==                                    \* line 122
    /\ pc[t] = "end_finish"
    /\ streams' = [streams EXCEPT ![stream[t]] = input_finished(@)]
    /\ Goto(t, "end_drain")
    /\ UNCHANGED <<sessions, lock, counters, locals, timers, touched>>

end_session_drain(t) ==                \* lines 123-124, one turn of the loop
    /\ pc[t] = "end_drain"
    /\ IF is_ready(streams[stream[t]])
       THEN /\ streams' = [streams EXCEPT ![stream[t]] = decode_stream(@)]
            /\ Goto(t, "end_drain")
       ELSE /\ UNCHANGED streams
            /\ Goto(t, "end_result")
    /\ UNCHANGED <<sessions, lock, counters, locals, timers, touched>>

end_session_result(t, shape) ==              \* lines 125-126
    /\ pc[t] = "end_result"
    /\ lock' = lock_release(lock, t)
    /\ Finish(t, EndResp(_extract_text(get_result(streams[stream[t]], shape))))
    /\ UNCHANGED <<sessions, streams, counters, req, touched>>

\* lock.acquire() by hand, with no release on the failure path
end_session_raise_holds(t) ==
    /\ pc[t] \in {"end_finish", "end_drain", "end_result"}
    /\ Finish(t, InternalServerError)
    /\ UNCHANGED <<sessions, lock, streams, counters, req, touched>>

\* a handler that puts the session back when finalization fails
end_session_raise_restores(t) ==
    /\ pc[t] \in {"end_finish", "end_drain", "end_result"}
    /\ lock' = lock_release(lock, t)
    /\ sessions' = sessions_set(sessions, req[t].session_id, stream[t])
    /\ Finish(t, InternalServerError)
    /\ UNCHANGED <<streams, counters, req, touched>>

end_session_raise(t) ==           \* an engine call of lines 122-125 raises
    /\ pc[t] \in {"end_finish", "end_drain", "end_result"}
    /\ lock' = lock_release(lock, t)
    /\ Finish(t, InternalServerError)
    /\ UNCHANGED <<sessions, streams, counters, req, touched>>

(***************************************************************************)
(* The framework sends the response; the thread returns to the pool.       *)
(***************************************************************************)
Respond(t) ==
    /\ pc[t] = "done"
    /\ pc' = [pc EXCEPT ![t] = "idle"]
    /\ req' = [req EXCEPT ![t] = NoReq]
    /\ touched' = [touched EXCEPT ![t] = FALSE]
    /\ resp' = [resp EXCEPT ![t] = NoResp]
    /\ UNCHANGED <<shared, counters, stream, samples, result, timers, asr_mlx>>

(***************************************************************************)
(* Time passes.  Only a push between lines 105 and 111 observes it, so the *)
(* clock is kept per such push: since_started is what time.time() -        *)
(* started reads, since_attempt the time that has really passed.           *)
(* time.time() is the wall clock: it follows the passing time (Tick) and   *)
(* can be set back (ClockSetBack: an NTP step, a clock set by hand).       *)
(***************************************************************************)
TimedPcs == {"push_lock", "push_accept", "push_drain", "push_result", "push_latency"}

Timed == {t \in Threads : pc[t] \in TimedPcs}

Tick ==
    /\ Timed # {}
    /\ \A t \in Timed : since_attempt[t] < MaxTime
    /\ since_started' = [t \in Threads |->
                           IF t \in Timed THEN since_started[t] + 1 ELSE since_started[t]]
    /\ since_attempt' = [t \in Threads |->
                           IF t \in Timed THEN since_attempt[t] + 1 ELSE since_attempt[t]]
    /\ UNCHANGED <<shared, counters, pc, locals, span, touched, resp, asr_mlx>>

ClockSetBack ==
    /\ Timed # {}
    /\ \A t \in Timed : since_started[t] > 0 - MaxTime
    /\ since_started' = [t \in Threads |->
                           IF t \in Timed THEN since_started[t] - 1 ELSE since_started[t]]
    /\ UNCHANGED <<shared, counters, pc, locals, since_attempt, span, touched, resp, asr_mlx>>

(***************************************************************************)
(* The handlers with the clock standing still: every latency measured is   *)
(* 0.  Nothing but latency_ms depends on the time, which NextTimed adds.   *)
(***************************************************************************)
Next ==
    \/ \E t \in Threads : start_session_uuid(t)
    \/ \E t \in Threads : start_session_create(t)
    \/ \E t \in Threads : start_session_store(t)
    \/ \E t \in Threads : start_session_raise(t)
    \/ \E t \in Threads, id \in RequestIds, p \in Payloads : push_audio_lookup(t, id, p)
    \/ \E t \in Threads : push_audio_started(t)
    \/ \E t \in Threads : push_audio_acquire(t)
    \/ \E t \in Threads : push_audio_accept(t)
    \/ \E t \in Threads : push_audio_drain(t)
    \/ \E t \in Threads, shape \in ResultShapes : push_audio_result(t, shape)
    \/ \E t \in Threads : push_audio_latency(t)
    \/ \E t \in Threads : push_audio_raise(t)
    \/ \E t \in Threads, id \in RequestIds : end_session_pop(t, id)
    \/ \E t \in Threads : end_session_acquire(t)
    \/ \E t \in Threads : end_session_finish(t)
    \/ \E t \in Threads : end_session_drain(t)
    \/ \E t \in Threads, shape \in ResultShapes : end_session_result(t, shape)
    \/ \E t \in Threads : end_session_raise(t)
    \/ \E t \in Threads : Respond(t)

Spec == Init /\ [][Next]_vars

(***************************************************************************)
(* The same handlers with time passing, for what is said about latency:    *)
(* requests on issued ids whose payload reaches the critical section or is *)
(* the empty string, and an engine that does not raise.                    *)
(***************************************************************************)
TimedPayloads == {p \in Payloads : ParsePayload(p).kind = "samples" \/ p = <<>>}
TimedIds == 1..MaxSessions

NextTimed ==
    \/ \E t \in Threads : start_session_uuid(t)
    \/ \E t \in Threads : start_session_create(t)
    \/ \E t \in Threads : start_session_store(t)
    \/ \E t \in Threads, id \in TimedIds, p \in TimedPayloads : push_audio_lookup(t, id, p)
    \/ \E t \in Threads : push_audio_started(t)
    \/ \E t \in Threads : push_audio_acquire(t)
    \/ \E t \in Threads : push_audio_accept(t)
    \/ \E t \in Threads : push_audio_drain(t)
    \/ \E t \in Threads, shape \in ResultShapes : push_audio_result(t, shape)
    \/ \E t \in Threads : push_audio_latency(t)
    \/ \E t \in Threads, id \in TimedIds : end_session_pop(t, id)
    \/ \E t \in Threads : end_session_acquire(t)
    \/ \E t \in Threads : end_session_finish(t)
    \/ \E t \in Threads : end_session_drain(t)
    \/ \E t \in Threads, shape \in ResultShapes : end_session_result(t, shape)
    \/ \E t \in Threads : Respond(t)
    \/ Tick
    \/ ClockSetBack

SpecTimed == Init /\ [][NextTimed]_vars

(***************************************************************************)
(* The handlers under a fair scheduler, for what is said about calls       *)
(* coming to an end: a thread inside a handler keeps running (WF), and a   *)
(* thread blocked at `with lock` gets the lock if it is free again and     *)
(* again (SF).  One session is started; the requests are on registered    *)
(* ids (any other ends in its first step) with payloads that reach the     *)
(* critical section; the clock stands still.                               *)
(***************************************************************************)
LivePayloads == {p \in Payloads : ParsePayload(p).kind = "samples"}

Acquire(t) == push_audio_acquire(t) \/ end_session_acquire(t)

Run(t) ==
    \/ start_session_create(t)
    \/ start_session_store(t)
    \/ push_audio_started(t)
    \/ push_audio_accept(t)
    \/ push_audio_drain(t)
    \/ \E shape \in ResultShapes : push_audio_result(t, shape)
    \/ push_audio_latency(t)
    \/ push_audio_raise(t)
    \/ end_session_finish(t)
    \/ end_session_drain(t)
    \/ \E shape \in ResultShapes : end_session_result(t, shape)
    \/ end_session_raise(t)

NextLive ==
    \/ \E t \in Threads : issued = 0 /\ start_session_uuid(t)
    \/ \E t \in Threads, id \in DOMAIN sessions, p \in LivePayloads : push_audio_lookup(t, id, p)
    \/ \E t \in Threads, id \in DOMAIN sessions : end_session_pop(t, id)
    \/ \E t \in Threads : Acquire(t)
    \/ \E t \in Threads : Run(t)
    \/ \E t \in Threads : Respond(t)

SpecLive ==
    /\ Init
    /\ [][NextLive]_vars
    /\ \A t \in Threads : WF_vars(Run(t))
    /\ \A t \in Threads : SF_vars(Acquire(t))

(***************************************************************************)
(* The asr_mlx sidecar (src/sidecars/asr_mlx/server.py), a process of its  *)
(* own: the module starts the warm-up thread (line 85) and then serves     *)
(* transcribe requests on the event loop.  Both call _model.generate, an   *)
(* external collaborator whose call either returns or raises an Exception. *)
(***************************************************************************)
\* the temporary files: NamedTemporaryFile gives every caller a new name
WarmFile == <<"warmup", 0>>
UploadFile(r) == <<"upload", r>>

\* what a call of a library or of the engine may do
Outcomes == {"returns", "raises"}

\* line 85: threading.Thread(target=_warm_up_model, daemon=True).start()
warm_up_start ==
    /\ warm_pc = "unstarted"
    /\ warm_pc' = "tempfile"
    /\ warm_starts' = warm_starts + 1
    /\ UNCHANGED <<fast_asr, warm_raised, warm_escaped, files, asr_pc, asr_resp>>

\* lines 68-71; an exception goes to the outer handler (81-82)
warm_up_tempfile(outcome) ==
    /\ warm_pc = "tempfile"
    /\ IF outcome = "returns"
       THEN /\ files' = files \cup {WarmFile}
            /\ warm_pc' = "write"
            /\ UNCHANGED warm_raised
       ELSE /\ warm_raised' = TRUE
            /\ warm_pc' = "finished"
            /\ UNCHANGED files
    /\ UNCHANGED <<fast_asr, warm_starts, warm_escaped, asr_pc, asr_resp>>

\* line 72; an exception goes to the outer handler and the file stays
warm_up_write(outcome) ==
    /\ warm_pc = "write"
    /\ IF outcome = "returns"
       THEN /\ warm_pc' = "generate"
            /\ UNCHANGED warm_raised
       ELSE /\ warm_raised' = TRUE
            /\ warm_pc' = "finished"
    /\ UNCHANGED <<fast_asr, warm_starts, warm_escaped, files, asr_pc, asr_resp>>

\* the engine's exception leaves _warm_up_model: no try around line 74
warm_up_generate_unguarded(outcome) ==
    /\ warm_pc = "generate"
    /\ warm_raised' = (warm_raised \/ outcome = "raises")
    /\ warm_escaped' = (warm_escaped \/ outcome = "raises")
    /\ warm_pc' = IF outcome = "returns" THEN "remove" ELSE "finished"
    /\ UNCHANGED <<fast_asr, warm_starts, files, asr_pc, asr_resp>>

\* lines 73-76: the result is dropped, an exception is swallowed
warm_up_generate(outcome) ==
    /\ warm_pc = "generate"
    /\ warm_raised' = (warm_raised \/ outcome = "raises")
    /\ warm_pc' = "remove"
    /\ UNCHANGED <<fast_asr, warm_starts, warm_escaped, files, asr_pc, asr_resp>>

\* lines 77-80, and the thread's target returns
warm_up_remove(outcome) ==
    /\ warm_pc = "remove"
    /\ warm_raised' = (warm_raised \/ outcome = "raises")
    /\ files' = IF outcome = "returns" THEN files \ {WarmFile} ELSE files
    /\ warm_pc' = "finished"
    /\ UNCHANGED <<fast_asr, warm_starts, warm_escaped, asr_pc, asr_resp>>

WarmUp ==
    \/ warm_up_start
    \/ \E outcome \in Outcomes : warm_up_tempfile(outcome)
    \/ \E outcome \in Outcomes : warm_up_write(outcome)
    \/ \E outcome \in Outcomes : warm_up_generate(outcome)
    \/ \E outcome \in Outcomes : warm_up_remove(outcome)

(***************************************************************************)
(* transcribe (lines 137-166) is a coroutine on the one event loop: it     *)
(* gives the loop up at `await file.read()` (line 141) only, so any number *)
(* of requests can be suspended there, each with its temporary file        *)
(* created, while at most one handler is between lines 142 and 166.        *)
(***************************************************************************)
SyncPcs == {"trim", "generate", "finally"}

Running == {r \in Uploads : asr_pc[r] \in SyncPcs}

\* _trim_silence (lines 92-134) returns -1 for a file it cannot read, else
\* the number of samples left; only its place against 400 is used (line 146)
TrimmedLens == {-1, 0, 399, 400}

\* what `await file.read()` and the write of line 141 may do; the task can
\* be cancelled while it is suspended
ReadOutcomes == {"returns", "raises", "cancelled"}

\* _model.generate (line 150): a text, segments only, nothing, the
\* ValueError "Input is too short", or another exception
GenerateOutcomes == {"text", "segments", "nothing", "too_short", "raises"}

\* lines 151-161
TranscribeText(outcome) ==
    CASE outcome = "text" -> <<"text">>
      [] outcome = "segments" -> <<"segments">>
      [] OTHER -> EmptyText

\* a handler ends with a response, or with the exception that left it
AsrFinish(r, response) ==
    /\ asr_pc' = [asr_pc EXCEPT ![r] = "done"]
    /\ asr_resp' = [asr_resp EXCEPT ![r] = response]

\* lines 138-140, up to the await of line 141; served once the module has
\* been imported (line 170).  Outside the try of line 144.
transcribe_open(r, outcome) ==
    /\ warm_pc # "unstarted"
    /\ asr_pc[r] = "unreceived"
    /\ Running = {}
    /\ IF outcome = "returns"
       THEN /\ files' = files \cup {UploadFile(r)}
            /\ asr_pc' = [asr_pc EXCEPT ![r] = "read"]
            /\ UNCHANGED asr_resp
       ELSE /\ AsrFinish(r, AsrServerError)
            /\ UNCHANGED files
    /\ UNCHANGED <<fast_asr, warm_pc, warm_starts, warm_raised, warm_escaped>>

\* lines 141-142, resumed by the loop; outside the try of line 144, so on
\* an exception or a cancellation the file stays and no response is made
\* by the handler (the framework answers an exception with 500)
transcribe_read(r, outcome) ==
    /\ asr_pc[r] = "read"
    /\ Running = {}
    /\ IF outcome = "returns"
       THEN /\ asr_pc' = [asr_pc EXCEPT ![r] = "trim"]
            /\ UNCHANGED asr_resp
       ELSE IF outcome = "raises"
       THEN AsrFinish(r, AsrServerError)
       ELSE AsrFinish(r, NoAsrResp)
    /\ UNCHANGED <<fast_asr, warm_pc, warm_starts, warm_raised, warm_escaped, files>>

\* lines 145-147; _trim_silence raises when sf.write (line 133) or a numpy
\* call does, and the exception leaves through the finally block
transcribe_trim(r, outcome, trimmed_len) ==
    /\ asr_pc[r] = "trim"
    /\ IF outcome = "raises"
       THEN /\ asr_resp' = [asr_resp EXCEPT ![r] = AsrServerError]
            /\ asr_pc' = [asr_pc EXCEPT ![r] = "finally"]
       ELSE IF 0 <= trimmed_len /\ trimmed_len < 400
       THEN /\ asr_resp' = [asr_resp EXCEPT ![r] = TranscribeResp(EmptyText)]
            /\ asr_pc' = [asr_pc EXCEPT ![r] = "finally"]
       ELSE /\ asr_pc' = [asr_pc EXCEPT ![r] = "generate"]
            /\ UNCHANGED asr_resp
    /\ UNCHANGED <<fast_asr, warm_pc, warm_starts, warm_raised, warm_escaped, files>>

\* lines 149-161
transcribe_generate(r, outcome) ==
    /\ asr_pc[r] = "generate"
    /\ asr_resp' = [asr_resp EXCEPT ![r] =
                      IF outcome = "raises" THEN AsrServerError
                      ELSE TranscribeResp(TranscribeText(outcome))]
    /\ asr_pc' = [asr_pc EXCEPT ![r] = "finally"]
    /\ UNCHANGED <<fast_asr, warm_pc, warm_starts, warm_raised, warm_escaped, files>>

\* lines 162-166: os.remove(tmp_path) removes this request's file or fails
transcribe_finally(r, outcome) ==
    /\ asr_pc[r] = "finally"
    /\ files' = IF outcome = "returns" THEN files \ {UploadFile(r)} ELSE files
    /\ asr_pc' = [asr_pc EXCEPT ![r] = "done"]
    /\ UNCHANGED <<fast_asr, warm_pc, warm_starts, warm_raised, warm_escaped, asr_resp>>

Handler(r) ==
    \/ \E outcome \in Outcomes : transcribe_open(r, outcome)
    \/ \E outcome \in ReadOutcomes : transcribe_read(r, outcome)
    \/ \E outcome \in Outcomes, trimmed_len \in TrimmedLens :
          transcribe_trim(r, outcome, trimmed_len)
    \/ \E outcome \in GenerateOutcomes : transcribe_generate(r, outcome)
    \/ \E outcome \in Outcomes : transcribe_finally(r, outcome)

Transcribe == \E r \in Uploads : Handler(r)

NextWarm == WarmUp \/ Transcribe

\* the operating system schedules the warm-up thread
SpecWarm == Init /\ [][NextWarm]_vars /\ WF_vars(WarmUp)

(***************************************************************************)
(* Vocabulary of the properties.                                           *)
(***************************************************************************)
Done(t) == pc[t] = "done"

Begins(t) == pc[t] = "idle" /\ pc'[t] # "idle"

\* the thread is inside an engine call made under the decode lock
LockedEnginePcs ==
    {"push_accept", "push_drain", "push_result", "end_finish", "end_drain", "end_result"}

\* the thread is inside any call into the recognizer
EnginePcs == LockedEnginePcs \cup {"start_create"}

InLockedEngine == {t \in Threads : pc[t] \in LockedEnginePcs}

InEngine == {t \in Threads : pc[t] \in EnginePcs}

(***************************************************************************)
(* C1.  Once end_session has removed an identifier, it is never in the     *)
(* registry again, and every push_audio or end_session call on it that     *)
(* begins afterwards ends at once with 404.                                *)
(***************************************************************************)
C1_ClosedStaysClosed ==
    [][ /\ \A id \in DOMAIN removed : id \notin DOMAIN sessions'
        /\ \A t \in Threads :
             (Begins(t) /\ req'[t].op \in {"push", "end"}
                        /\ req'[t].session_id \in DOMAIN removed)
             => (pc'[t] = "done" /\ resp'[t].status = 404) ]_vars

C1_Witness ==
    \E t \in Threads :
        /\ Done(t)
        /\ req[t].op = "push"
        /\ req[t].session_id \in DOMAIN removed
        /\ resp[t].status = 404

(***************************************************************************)
(* C2.  At most one thread at a time is inside an engine call made by      *)
(* push_audio or end_session (accept_waveform, input_finished, is_ready,   *)
(* decode_stream, get_result).                                             *)
(***************************************************************************)
C2_OneDecoder == Cardinality(InLockedEngine) <= 1

C2_Witness ==
    \E t, u \in Threads :
        /\ t # u
        /\ pc[t] = "push_drain"
        /\ is_ready(streams[stream[t]])
        /\ pc[u] \in {"push_lock", "end_lock"}

(***************************************************************************)
(* C3.  At most one thread at a time is inside any call into the           *)
(* recognizer, create_stream of start_session included.                    *)
(***************************************************************************)
C3_OneEngineCaller == Cardinality(InEngine) <= 1

(***************************************************************************)
(* C4.  No push_audio call is inside its critical section, having fed      *)
(* audio into the Stream, on a Stream whose session end_session has        *)
(* removed and on which end-of-input has been signalled.                   *)
(***************************************************************************)
C4_NoPushAfterFinish ==
    \A t \in Threads :
        pc[t] \in {"push_drain", "push_result"} => ~streams[stream[t]].finished

(***************************************************************************)
(* C5.  A session is finalized at most once: end-of-input is signalled at  *)
(* most once on any Stream, no two end_session calls are finalizing the    *)
(* same Stream, at most as many end_session calls got past the removal as  *)
(* there are removed identifiers, and an end_session that failed with 404  *)
(* has not touched the lock or the engine.                                 *)
(***************************************************************************)
EndPcs == {"end_lock", "end_finish", "end_drain", "end_result"}

C5_FinalizedOnce ==
    /\ \A s \in DOMAIN streams : streams[s].finishes <= 1
    /\ \A t, u \in Threads :
         (t # u /\ pc[t] \in EndPcs /\ pc[u] \in EndPcs) => stream[t] # stream[u]
    /\ \A t \in Threads :
         pc[t] \in EndPcs =>
            /\ req[t].session_id \in DOMAIN removed
            /\ removed[req[t].session_id] = stream[t]
    /\ \A t \in Threads :
         (Done(t) /\ req[t].op = "end" /\ resp[t].status = 404) => ~touched[t]

C5_Witness ==
    \E t \in Threads :
        /\ Done(t)
        /\ req[t].op = "end"
        /\ resp[t].status = 404
        /\ req[t].session_id \in DOMAIN removed
        /\ streams[removed[req[t].session_id]].finishes = 1

(***************************************************************************)
(* Payload classes, by what the wire string decodes to.                    *)
(***************************************************************************)
DecodesToNothing(p) == p = <<>> \/ (b64decode(p).ok /\ b64decode(p).nbytes = 0)

InvalidBase64(p) == p # <<>> /\ ~b64decode(p).ok

Misaligned(p) == p # <<>> /\ b64decode(p).ok /\ b64decode(p).nbytes % 4 # 0

(***************************************************************************)
(* C6.  A push_audio call on a registered session whose payload is the     *)
(* empty string or decodes to zero bytes ends in the step that looks the   *)
(* session up, with text "" and latency 0, without taking the lock or      *)
(* calling the engine, whoever holds the lock.                             *)
(***************************************************************************)
C6_EmptyFastPath ==
    [][ \A t \in Threads :
          (/\ Begins(t)
           /\ req'[t].op = "push"
           /\ req'[t].session_id \in DOMAIN sessions
           /\ DecodesToNothing(req'[t].samples_b64))
          => /\ pc'[t] = "done"
             /\ resp'[t] = PushResp(EmptyText, 0)
             /\ ~touched'[t]
             /\ UNCHANGED <<sessions, streams, lock>> ]_vars

C6_Witness ==
    \E t \in Threads :
        /\ Done(t)
        /\ req[t].op = "push"
        /\ req[t].samples_b64 # <<>>
        /\ DecodesToNothing(req[t].samples_b64)
        /\ resp[t] = PushResp(EmptyText, 0)
        /\ lock \notin {NoThread, t}

(***************************************************************************)
(* C7.  A push_audio call on a registered session whose decoded payload    *)
(* has a byte length that is not a multiple of 4 ends with the structured  *)
(* 400 error.                                                              *)
(***************************************************************************)
C7_MisalignedIs400 ==
    [][ \A t \in Threads :
          (/\ Begins(t)
           /\ req'[t].op = "push"
           /\ req'[t].session_id \in DOMAIN sessions
           /\ Misaligned(req'[t].samples_b64))
          => (pc'[t] = "done" /\ resp'[t].status = 400) ]_vars

(***************************************************************************)
(* C8.  A push_audio call on a registered session whose payload is invalid *)
(* base64 or cannot be read as float32 fails in the step that looks the    *)
(* session up, and that step leaves the registry, every Stream and the     *)
(* lock as they were and makes no engine call: the session is still        *)
(* registered.                                                             *)
(***************************************************************************)
C8_BadPayloadHarmless ==
    [][ \A t \in Threads :
          (/\ Begins(t)
           /\ req'[t].op = "push"
           /\ req'[t].session_id \in DOMAIN sessions
           /\ (InvalidBase64(req'[t].samples_b64) \/ Misaligned(req'[t].samples_b64)))
          => /\ pc'[t] = "done"
             /\ resp'[t].status \in {400, 500}
             /\ ~touched'[t]
             /\ UNCHANGED <<sessions, streams, lock>>
             /\ req'[t].session_id \in DOMAIN sessions' ]_vars

\* a failed push, and a valid push on the same session in its critical section
C8_Witness ==
    \E t, u \in Threads :
        /\ Done(t)
        /\ req[t].op = "push"
        /\ InvalidBase64(req[t].samples_b64)
        /\ resp[t].status = 400
        /\ req[u].op = "push"
        /\ req[u].session_id = req[t].session_id
        /\ pc[u] = "push_drain"
        /\ streams[stream[u]].pending > 0

(***************************************************************************)
(* C9.  The latency a push_audio call reports is not negative and is at    *)
(* least the time, in whole milliseconds, from the moment the call reached *)
(* the lock to the moment it released it: the wait for the lock and the    *)
(* time inside it are both counted.                                        *)
(***************************************************************************)
C9_LatencyCoversWaitAndHold ==
    [][ \A t \in Threads :
          (pc[t] = "push_latency" /\ pc'[t] = "done")
          => /\ resp'[t].status = 200
             /\ resp'[t].latency_ms >= 0
             /\ resp'[t].latency_ms >= span[t] \div TicksPerMs ]_vars

(***************************************************************************)
(* C10.  The step in which a push_audio or end_session call fails with 404 *)
(* is the call's only step, and it leaves the registry, every Stream and   *)
(* the lock as they were; the call makes no engine call.                   *)
(***************************************************************************)
C10_NotFoundChangesNothing ==
    [][ \A t \in Threads :
          (pc[t] # "done" /\ pc'[t] = "done" /\ resp'[t].status = 404)
          => /\ pc[t] = "idle"
             /\ req'[t].op \in {"push", "end"}
             /\ ~touched'[t]
             /\ UNCHANGED <<sessions, streams, lock>> ]_vars

\* a 404 on an id never issued, given while a session is registered and
\* another call holds the lock
C10_Witness ==
    \E t \in Threads :
        /\ Done(t)
        /\ resp[t].status = 404
        /\ req[t].op = "end"
        /\ req[t].session_id > issued
        /\ DOMAIN sessions # {}
        /\ lock \notin {NoThread, t}

(***************************************************************************)
(* C11.  The step in which start_session stores its session binds an       *)
(* identifier that is not in the registry, and never was, to a Stream that *)
(* no registry entry, no removed session and no other thread holds; it     *)
(* leaves every other entry as it was and returns that identifier.  So the *)
(* registry never maps two identifiers to one Stream.                      *)
(***************************************************************************)
Streams(reg) == {reg[id] : id \in DOMAIN reg}

C11_StartBindsFresh ==
    [][ /\ \A t \in Threads :
             (pc[t] = "start_store" /\ pc'[t] = "done")
             => /\ req[t].session_id \notin DOMAIN sessions \cup DOMAIN removed
                /\ stream[t] \in DOMAIN streams
                /\ stream[t] \notin Streams(sessions) \cup Streams(removed)
                /\ \A u \in Threads \ {t} : stream[u] # stream[t]
                /\ streams[stream[t]] = create_stream
                /\ DOMAIN sessions' = DOMAIN sessions \cup {req[t].session_id}
                /\ sessions'[req[t].session_id] = stream[t]
                /\ \A id \in DOMAIN sessions : sessions'[id] = sessions[id]
                /\ resp'[t] = StartResp(req[t].session_id)
        /\ \A i, j \in DOMAIN sessions' :
             i # j => sessions'[i] # sessions'[j] ]_vars

\* a second session has just been stored while the first is being pushed to
C11_Witness ==
    \E t, u \in Threads :
        /\ Done(t)
        /\ req[t].op = "start"
        /\ resp[t].status = 200
        /\ Cardinality(DOMAIN sessions) >= 2
        /\ pc[u] \in {"push_accept", "push_drain"}
        /\ stream[u] # sessions[resp[t].session_id]

(***************************************************************************)
(* C12.  A push_audio call that is about to read the result and release    *)
(* the lock (line 110) holds the lock, and the engine reports its Stream   *)
(* as not ready: every decodable step has been taken, not just one.        *)
(***************************************************************************)
C12_DrainedAtResult ==
    \A t \in Threads :
        pc[t] = "push_result" =>
            /\ lock = t
            /\ ~is_ready(streams[stream[t]])

\* the first push of a session is at line 110 after two decode steps
C12_Witness ==
    \E t \in Threads :
        /\ pc[t] = "push_result"
        /\ ncalls = 2
        /\ streams[stream[t]].decoded = 2

(***************************************************************************)
(* C13.  Inside push_audio and end_session the engine steps come in one    *)
(* order: the feed (or end-of-input), then the drain loop for as long as   *)
(* the Stream is ready, then get_result; the thread holds the lock from    *)
(* the first of them until it leaves the last; and while it is there no    *)
(* step of another thread is an engine step of a push or end, or changes   *)
(* any existing Stream.                                                    *)
(***************************************************************************)
NextEnginePc(t) ==
    CASE pc[t] = "push_accept" -> {"push_drain"}
      [] pc[t] = "push_drain"  -> IF is_ready(streams[stream[t]])
                                  THEN {"push_drain"} ELSE {"push_result"}
      [] pc[t] = "push_result" -> {"push_latency"}
      [] pc[t] = "end_finish"  -> {"end_drain"}
      [] pc[t] = "end_drain"   -> IF is_ready(streams[stream[t]])
                                  THEN {"end_drain"} ELSE {"end_result"}
      [] pc[t] = "end_result"  -> {"done"}
      [] OTHER -> {}

C13_OrderedUninterrupted ==
    [][ \A t \in Threads :
          pc[t] \in LockedEnginePcs =>
            /\ lock = t
            /\ pc'[t] \in LockedEnginePcs => lock' = t
            /\ pc'[t] \in NextEnginePc(t) \cup {pc[t], "done"}
            /\ \A u \in Threads \ {t} :
                 pc'[u] # pc[u] =>
                    /\ pc[u] \notin LockedEnginePcs
                    /\ pc'[u] \notin LockedEnginePcs
                    /\ pc'[t] = pc[t]
                    /\ \A s \in DOMAIN streams : streams'[s] = streams[s] ]_vars

\* an end between end-of-input and get_result while a push that found the
\* same Stream waits for the lock
C13_Witness ==
    \E t, u \in Threads :
        /\ pc[t] = "end_drain"
        /\ streams[stream[t]].finished
        /\ pc[u] = "push_lock"
        /\ stream[u] = stream[t]

(***************************************************************************)
(* C14.  While another thread holds the lock and is in its decode loop on  *)
(* a Stream that is ready, every step of start_session, the lookup step of *)
(* push_audio and the removal step of end_session can be taken.  A thread  *)
(* inside start_session, or past its lookup or removal and not yet at the  *)
(* engine, does not hold the lock and has not taken it; a call that ended  *)
(* with 404 never took it; and the Stream start_session is about to store  *)
(* has had no decode step.                                                 *)
(***************************************************************************)
StartPcs == {"start_create", "start_store"}

OtherDecodes(t) ==
    \E u \in Threads \ {t} :
        /\ lock = u
        /\ pc[u] \in {"push_drain", "end_drain"}
        /\ is_ready(streams[stream[u]])

C14_RegistryNeverWaits ==
    \A t \in Threads :
        /\ (OtherDecodes(t) /\ pc[t] = "start_create") => ENABLED start_session_create(t)
        /\ (OtherDecodes(t) /\ pc[t] = "start_store") => ENABLED start_session_store(t)
        /\ (OtherDecodes(t) /\ pc[t] = "idle" /\ ncalls < MaxCalls) =>
              /\ issued < MaxSessions => ENABLED start_session_uuid(t)
              /\ \A id \in RequestIds :
                   /\ ENABLED end_session_pop(t, id)
                   /\ \A p \in Payloads : ENABLED push_audio_lookup(t, id, p)
        /\ pc[t] \in StartPcs => lock # t
        /\ pc[t] \in {"push_started", "push_lock", "end_lock"} => (lock # t /\ ~touched[t])
        /\ (Done(t) /\ resp[t].status = 404) => (lock # t /\ ~touched[t])
        /\ pc[t] = "start_store" => streams[stream[t]].decoded = 0

\* a start_session that has returned its session while a push, begun before
\* it, is still in its decode loop
C14_Witness ==
    \E t, u \in Threads :
        /\ Done(t)
        /\ req[t].op = "start"
        /\ resp[t].status = 200
        /\ ncalls = MaxCalls
        /\ lock = u
        /\ pc[u] = "push_drain"
        /\ is_ready(streams[stream[u]])

(***************************************************************************)
(* C15.  When an engine call of push_audio raises, the call ends with the  *)
(* failure (500) in that step and the step leaves the registry as it was:  *)
(* a session that was registered still is, bound to the same Stream.  And  *)
(* no lookup of a registered identifier answers 404.                       *)
(***************************************************************************)
PushEnginePcs == {"push_accept", "push_drain", "push_result"}

C15_PushFailureKeepsSession ==
    [][ \A t \in Threads :
          /\ (pc[t] \in PushEnginePcs /\ pc'[t] = "done")
             => /\ resp'[t] = InternalServerError
                /\ sessions' = sessions
                /\ sessions_get(sessions', req[t].session_id) \in {stream[t], NoStream}
          /\ (Begins(t) /\ req'[t].op \in {"push", "end"}
                        /\ req'[t].session_id \in DOMAIN sessions)
             => ~(pc'[t] = "done" /\ resp'[t].status = 404) ]_vars

\* a push failed after feeding its samples; its session is still registered
\* and another call on it has found the Stream and is at the engine
C15_Witness ==
    \E t, u \in Threads :
        /\ Done(t)
        /\ req[t].op = "push"
        /\ resp[t] = InternalServerError
        /\ touched[t]
        /\ req[t].session_id \in DOMAIN sessions
        /\ streams[sessions[req[t].session_id]].pending > 0
        /\ pc[u] = "push_accept"
        /\ stream[u] = sessions[req[t].session_id]

(***************************************************************************)
(* C16.  Under a fair scheduler and a fair lock, every push_audio and      *)
(* end_session call that has begun comes to its end; the lock is held only *)
(* by a thread inside its critical section, so it is free whenever no call *)
(* is there; and a call that has begun is never left without a step some   *)
(* thread can take.                                                        *)
(***************************************************************************)
InCall(t) == pc[t] \notin {"idle", "done"} /\ req[t].op \in {"push", "end"}

C16_CallsReturn ==
    /\ [](lock # NoThread => pc[lock] \in LockedEnginePcs)
    /\ []((\E t \in Threads : InCall(t)) => \E u \in Threads : ENABLED (Run(u) \/ Acquire(u)))
    /\ \A t \in Threads : InCall(t) ~> Done(t)

\* a push waits for the lock while another call is in its decode loop
C16_Witness ==
    \E t, u \in Threads :
        /\ t # u
        /\ pc[t] = "push_lock"
        /\ pc[u] \in {"end_drain", "push_drain"}
        /\ lock = u
        /\ is_ready(streams[stream[u]])

(***************************************************************************)
(* C17.  A thread that is not inside a critical section of push_audio or   *)
(* end_session does not hold the lock, whichever way it left: after an     *)
(* engine failure in particular the lock is not held by the failed call,   *)
(* and a call waiting at `with lock` can take it as soon as no thread is   *)
(* inside a critical section.                                              *)
(***************************************************************************)
C17_ReleasedOnEveryExit ==
    \A t \in Threads :
        /\ lock = t => pc[t] \in LockedEnginePcs
        /\ (Done(t) /\ resp[t] = InternalServerError) => lock # t
        /\ (pc[t] \in {"push_lock", "end_lock"} /\ InLockedEngine = {})
             => ENABLED Acquire(t)

\* a call failed inside its critical section and has not answered yet; the
\* next call has taken the lock
C17_Witness ==
    \E t, u \in Threads :
        /\ Done(t)
        /\ req[t].op \in {"push", "end"}
        /\ resp[t] = InternalServerError
        /\ touched[t]
        /\ lock = u
        /\ pc[u] \in {"push_accept", "end_finish"}

(***************************************************************************)
(* C18.  An end_session call that is past its removal step, at the lock or *)
(* at the engine, has its identifier out of the registry; when an engine   *)
(* call of it raises, the call ends with the failure and the identifier is *)
(* still out; and while that failed call has not yet answered, every       *)
(* push_audio or end_session call that begins on the identifier ends at    *)
(* once with 404.                                                          *)
(***************************************************************************)
EndEnginePcs == {"end_finish", "end_drain", "end_result"}

FailedEnd(t) ==
    Done(t) /\ req[t].op = "end" /\ resp[t] = InternalServerError

C18_FailedEndIsFinal ==
    [][ \A t \in Threads :
          /\ pc[t] \in EndPcs => req[t].session_id \notin DOMAIN sessions
          /\ (pc[t] \in EndEnginePcs /\ pc'[t] = "done" /\ resp'[t].status # 200)
             => /\ resp'[t] = InternalServerError
                /\ req[t].session_id \notin DOMAIN sessions'
                /\ req[t].session_id \in DOMAIN removed'
          /\ FailedEnd(t) =>
                \A u \in Threads :
                    (Begins(u) /\ req'[u].op \in {"push", "end"}
                               /\ req'[u].session_id = req[t].session_id)
                    => (pc'[u] = "done" /\ resp'[u].status = 404) ]_vars

\* finalization failed at the engine, and the retry of the end got 404
C18_Witness ==
    \E t, u \in Threads :
        /\ FailedEnd(t)
        /\ touched[t]
        /\ Done(u)
        /\ req[u].op = "end"
        /\ req[u].session_id = req[t].session_id
        /\ resp[u].status = 404

(***************************************************************************)
(* C19.  The warm-up thread is started at most once; no exception leaves   *)
(* _warm_up_model, whatever was raised inside; no step of it changes what  *)
(* a client can see (the position and response of any transcribe handler,  *)
(* the uploaded files); while the warm-up is running, every transcribe     *)
(* request that has not ended has a step to take unless the event loop is  *)
(* running another handler; and once started the warm-up finishes.         *)
(***************************************************************************)
C19_WarmUpIsHarmless ==
    /\ [](warm_starts <= 1 /\ ~warm_escaped)
    /\ [](\A r \in Uploads :
            (/\ warm_pc \notin {"unstarted", "finished"}
             /\ asr_pc[r] # "done"
             /\ Running \subseteq {r}) => ENABLED Handler(r))
    /\ [][ warm_pc' # warm_pc =>
             /\ UNCHANGED <<asr_pc, asr_resp>>
             /\ files' \ {WarmFile} = files \ {WarmFile} ]_vars
    /\ (warm_pc # "unstarted") ~> (warm_pc = "finished")

\* the engine raised in the warm-up, which is still running; meanwhile one
\* request has been answered by the engine and another is in the engine
C19_Witness ==
    /\ warm_pc = "remove"
    /\ warm_raised
    /\ \E r, q \in Uploads :
          /\ asr_pc[r] = "done"
          /\ asr_resp[r] = TranscribeResp(<<"text">>)
          /\ asr_pc[q] = "generate"

====
